---------------------------- MODULE Spec2Model ----------------------------
(* Model of the subscription / schedule / progress handlers of main.go.    *)
(* Every handler is a request process; every SQL statement it issues is    *)
(* one atomic step, and there is no transaction around the statements of a *)
(* handler, exactly as in the source (db is a plain *sql.DB handle).       *)
EXTENDS Integers, Sequences, FiniteSets, TLC

(***************************************************************************)
(* Bounds of the model                                                     *)
(***************************************************************************)
NumProcs == 2       \* concurrent request goroutines
MaxSubs == 1        \* subscriptions ever inserted (SERIAL ids 1..MaxSubs)
MaxEvents == 3      \* progress rows ever inserted, requests served concurrently
MaxSeqEvents == 3   \* progress rows ever inserted, requests served one by one
MaxLawEvents == 6   \* progress rows ever inserted in the single-plan specification
MaxQueryEvents == 1 \* progress rows ever inserted in the query specification
MaxLedgerEvents == 52 \* progress rows ever inserted in the ledger specification
MaxOtherEvents == 2 \* of these, the first that can belong to a second subscription
MaxFailEvents == 2  \* progress rows ever inserted in the storage-failure specification
MaxEditEvents == 2  \* progress rows ever inserted in the update specification
MaxOverlapEvents == 2 \* progress rows ever inserted beside overlapping deletions

Procs == 1 .. NumProcs

(***************************************************************************)
(* Program constants                                                       *)
(***************************************************************************)
PartsPerChapter == 3
DefaultChapters == 15
ProgressLimit == 50

(***************************************************************************)
(* Request inputs: the values the requests of a specification draw from.   *)
(* ids are the ids a subscription can have; SeqInputs adds one none ever   *)
(* has.  A subject list is the result of strings.Split(input.Subjects,     *)
(* ","); << >> stands for the empty string of updateSubscription.  A       *)
(* schedule_days string is the sequence of its characters.                 *)
(***************************************************************************)
\* the day names of getDayName, as character sequences
Sun == <<"S", "u", "n">>
Mon == <<"M", "o", "n">>
Tue == <<"T", "u", "e">>
Wed == <<"W", "e", "d">>
Thu == <<"T", "h", "u">>
Fri == <<"F", "r", "i">>
Sat == <<"S", "a", "t">>

\* the teacher, days and time of the requests that do not vary them
Plain == [teacher_id |-> "T1", schedule_days |-> Mon, time |-> 1000]

\* a createSubscription input
CreateInput(class, subjects, rest) ==
    [class |-> class, subjects |-> subjects, teacher_id |-> rest.teacher_id,
     schedule_days |-> rest.schedule_days, time |-> rest.time]

\* an updateSubscription input
UpdateInput(class, subjects, status, rest) ==
    [class |-> class, subjects |-> subjects, status |-> status,
     teacher_id |-> rest.teacher_id, schedule_days |-> rest.schedule_days,
     time |-> rest.time]

\* the fields of a JSON body that does not name them: Go's zero values ("" for
\* the time string); strings.Split("", ",") is the one-element list [""]
Absent == [teacher_id |-> "", schedule_days |-> <<>>, time |-> 0]
NoSubjects == <<"">>

\* requests served one after the other
SeqInputs ==
    [ids |-> 1 .. MaxSubs + 1,
     maxSubs |-> MaxSubs,
     creates |-> { CreateInput(6, <<"Math", " Science">>, Plain),
                   CreateInput(5, <<"Math", " Science">>, Plain),
                   CreateInput(5, <<"Art">>, Plain) },
     updates |-> { UpdateInput(6, <<"Math">>, "", Plain),
                   UpdateInput(0, <<"Math">>, "", Plain) },
     completeSubjects |-> {"Math", "Science", "Art"},
     teachers |-> {"T1"},
     notes |-> {"n1"},
     maxEvents |-> MaxSeqEvents]

\* requests served concurrently
ConcInputs ==
    [ids |-> 1 .. MaxSubs,
     maxSubs |-> MaxSubs,
     creates |-> { CreateInput(6, <<"Math", " Science">>, Plain) },
     updates |-> { UpdateInput(6, <<"Math">>, "", Plain) },
     completeSubjects |-> {"Math", "Science", "Art"},
     teachers |-> {"T1"},
     notes |-> {"n1"},
     maxEvents |-> MaxEvents]

\* overlapping completions on the plans of one subscription
RaceInputs ==
    [ids |-> {1},
     maxSubs |-> 1,
     creates |-> { CreateInput(6, <<"Math", " Science">>, Plain) },
     completeSubjects |-> {"Math", "Science"},
     teachers |-> {"T1"},
     notes |-> {"n1"},
     maxEvents |-> MaxEvents]

\* long runs of completions on the plans of one subscription
LawInputs ==
    [ids |-> {1},
     maxSubs |-> 1,
     creates |-> { CreateInput(6, <<"Math">>, Plain),
                   CreateInput(6, <<"Math", " Science">>, Plain) },
     updates |-> { UpdateInput(6, <<"Math">>, "", Plain) },
     completeSubjects |-> {"Math", "Science"},
     teachers |-> {"T1"},
     notes |-> {"n1"},
     maxEvents |-> MaxLawEvents]

\* the values of time.Now(): the weekday and the date as Format("2006-01-02")
\* gives it; 2024-04-10 and 2024-04-17 are Wednesdays
Calendar ==
    { [weekday |-> 0, date |-> "2024-04-07"], [weekday |-> 1, date |-> "2024-04-08"],
      [weekday |-> 2, date |-> "2024-04-09"], [weekday |-> 3, date |-> "2024-04-10"],
      [weekday |-> 4, date |-> "2024-04-11"], [weekday |-> 5, date |-> "2024-04-12"],
      [weekday |-> 6, date |-> "2024-04-13"], [weekday |-> 3, date |-> "2024-04-17"] }

\* subscriptions of two teachers on several days, and the queries of a teacher
QueryInputs ==
    [ids |-> {1, 2},
     maxSubs |-> 2,
     creates |-> { CreateInput(6, <<"Math", " Science">>,
                     [teacher_id |-> "T1", schedule_days |-> Mon, time |-> 1000]),
                   CreateInput(6, <<"Math">>,
                     [teacher_id |-> "T1", schedule_days |-> <<"3">>, time |-> 900]),
                   CreateInput(6, <<"Math">>,
                     [teacher_id |-> "T1", schedule_days |-> <<"1", "3">>,
                      time |-> 900]),
                   CreateInput(6, <<"Math", "Math">>,
                     [teacher_id |-> "T1", schedule_days |-> Mon \o <<",">> \o Wed,
                      time |-> 1000]) },
     updates |-> { UpdateInput(6, <<"Math">>, "paused", Plain),
                   UpdateInput(6, <<"Math">>, "",
                     [teacher_id |-> "T2", schedule_days |-> Mon, time |-> 1000]) },
     completeSubjects |-> {"Math"},
     teachers |-> {"T1"},
     notes |-> {"n1"},
     nows |-> Calendar,
     maxEvents |-> MaxQueryEvents]

\* one subscription with events, deleted while statements can fail
FailInputs ==
    [ids |-> {1},
     maxSubs |-> 1,
     creates |-> { CreateInput(6, <<"Math", " Science">>, Plain),
                   CreateInput(6, NoSubjects, Plain),
                   CreateInput(0, NoSubjects, Absent) },
     completeSubjects |-> {"Math", "Science"},
     teachers |-> {"T1"},
     notes |-> {"n1"},
     maxEvents |-> MaxFailEvents]

\* completions and deletions of one subscription that overlap
OverlapInputs ==
    [ids |-> {1},
     maxSubs |-> 1,
     creates |-> { CreateInput(6, <<"Math", " Science">>, Plain) },
     completeSubjects |-> {"Math"},
     teachers |-> {"T1"},
     notes |-> {"n1"},
     maxEvents |-> MaxOverlapEvents]

\* two subscriptions that are updated, completed and queried
EditInputs ==
    [ids |-> {1, 2},
     maxSubs |-> 2,
     creates |-> { CreateInput(6, <<"Math", " Science">>, Plain) },
     updates |-> { UpdateInput(5, <<"Math", " Science">>, "paused", Plain),
                   UpdateInput(5, <<"Art">>, "cancelled", Plain),
                   UpdateInput(0, <<"Math">>, "", Plain),
                   UpdateInput(6, <<"Math">>, "archived", Plain),
                   UpdateInput(6, NoSubjects, "", Plain) },
     completeSubjects |-> {"Math", "Science"},
     teachers |-> {"T1"},
     notes |-> {"n1"},
     nows |-> { d \in Calendar : d.date \in {"2024-04-08", "2024-04-10"} },
     maxEvents |-> MaxEditEvents]

\* a long ledger of one subscription beside a short one of another, and the
\* history queries
LedgerInputs ==
    [ids |-> {1},
     otherIds |-> {2},
     maxSubs |-> 2,
     creates |-> { CreateInput(6, <<"Math">>, Plain) },
     completeSubjects |-> {"Math"},
     teachers |-> {"T1"},
     notes |-> {"n1"},
     maxEvents |-> MaxLedgerEvents,
     otherMaxEvents |-> MaxOtherEvents]

(***************************************************************************)
(* mentor.chapters: the externally managed catalog, never written by the   *)
(* handlers.                                                               *)
(***************************************************************************)
chapters ==
    { [class |-> 6, subject |-> "Math",    total_chapters |-> 12],
      [class |-> 6, subject |-> "Science", total_chapters |-> 15],
      [class |-> 5, subject |-> "math",    total_chapters |-> 10],
      [class |-> 5, subject |-> "Art",     total_chapters |-> 0],
      [class |-> 5, subject |-> "art",     total_chapters |-> 8] }

\* strings.TrimSpace on the tokens that occur in the inputs
TrimSpace(s) == IF s = " Science" THEN "Science" ELSE s

\* SQL LOWER() on the subject names that occur in the catalog and the inputs
Lower(s) ==
    CASE s = "Math" -> "math"
      [] s = "Science" -> "science"
      [] s = "Art" -> "art"
      [] OTHER -> s

\* SELECT total_chapters ... WHERE class = $1 AND subject = $2
ExactRows(class, subj) ==
    { r \in chapters : r.class = class /\ r.subject = subj }

\* SELECT total_chapters ... WHERE class = $1 AND LOWER(subject) = LOWER($2)
LowerRows(class, subj) ==
    { r \in chapters : r.class = class /\ Lower(r.subject) = Lower(subj) }


\* createChapters without the case-insensitive retry
createChapters_ExactOnly(class, subj) ==
    IF ExactRows(class, subj) # {}
    THEN { IF r.total_chapters = 0 THEN DefaultChapters ELSE r.total_chapters :
             r \in ExactRows(class, subj) }
    ELSE { DefaultChapters }

\* createSubscription, first loop: the chapter counts one subject can resolve to
\* (QueryRow takes the first row of a result, in no specified order)
createChapters(class, subj) ==
    LET RowCount(r) == IF r.total_chapters = 0 THEN DefaultChapters
                       ELSE r.total_chapters
    IN IF ExactRows(class, subj) # {}
       THEN { RowCount(r) : r \in ExactRows(class, subj) }
       ELSE IF LowerRows(class, subj) # {}
            THEN { RowCount(r) : r \in LowerRows(class, subj) }
            ELSE { DefaultChapters }

\* createSubscription, second loop: err is the INSERT's error, nil here, so the
\* case-insensitive query is never issued
scheduleChapters(class, subj) ==
    LET Scanned == IF ExactRows(class, subj) # {}
                   THEN { r.total_chapters : r \in ExactRows(class, subj) }
                   ELSE { 0 }
    IN { IF n = 0 THEN DefaultChapters ELSE n : n \in Scanned }

\* updateChapters without the case-insensitive retry
updateChapters_NoRetry(class, subj) ==
    LET Scanned == IF ExactRows(class, subj) # {}
                   THEN { r.total_chapters : r \in ExactRows(class, subj) }
                   ELSE { 0 }
    IN { IF n = 0 THEN DefaultChapters ELSE n : n \in Scanned }

\* updateSubscription: the chapter counts one subject can resolve to
updateChapters(class, subj) ==
    LET Scanned == IF ExactRows(class, subj) # {}
                   THEN { r.total_chapters : r \in ExactRows(class, subj) }
                   ELSE IF LowerRows(class, subj) # {}
                        THEN { r.total_chapters : r \in LowerRows(class, subj) }
                        ELSE { 0 }
    IN { IF n = 0 THEN DefaultChapters ELSE n : n \in Scanned }

\* totalClasses += chapters over the subject list, createSubscription
RECURSIVE createTotalClasses(_, _)
createTotalClasses(class, subjectList) ==
    IF subjectList = <<>> THEN {0}
    ELSE { n + m : n \in createChapters(class, TrimSpace(Head(subjectList))),
                   m \in createTotalClasses(class, Tail(subjectList)) }

\* totalClasses of updateSubscription: 0 unless class > 0 and subjects # ""
RECURSIVE updateSum(_, _)
updateSum(class, subjectList) ==
    IF subjectList = <<>> THEN {0}
    ELSE { n + m : n \in updateChapters(class, TrimSpace(Head(subjectList))),
                   m \in updateSum(class, Tail(subjectList)) }

updateTotalClasses(class, subjectList) ==
    IF class > 0 /\ subjectList # NoSubjects
    THEN updateSum(class, subjectList) ELSE {0}

(***************************************************************************)
(* State                                                                   *)
(***************************************************************************)
VARIABLES
    subscriptions,   \* mentor.subscriptions: id -> row
    schedule,        \* mentor.schedule: id -> row (the SubjectPlans)
    progress,        \* mentor.progress: id -> row (the ProgressEvents)
    nextSubId,       \* SERIAL sequence of mentor.subscriptions
    nextSchedId,     \* SERIAL sequence of mentor.schedule
    nextProgId,      \* SERIAL sequence of mentor.progress
    pc,              \* per request process: the statement it executes next
    req,             \* per request process: bound input and local variables
    completions      \* per schedule id: 200 responses of markClassComplete

store == <<subscriptions, schedule, progress, nextSubId, nextSchedId, nextProgId>>
vars == <<subscriptions, schedule, progress, nextSubId, nextSchedId, nextProgId,
          pc, req, completions>>

\* progress_percent is a float64 quotient; it is kept as the exact fraction
Frac(n, d) == [num |-> n, den |-> d]
ZeroPercent == Frac(0, 1)
FracEq(a, b) == a.num * b.den = b.num * a.den

\* column defaults of the tables (the DDL of these tables is not in the sources)
ScheduleDefaults ==
    [current_chapter |-> 1, current_part |-> 1, total_parts_done |-> 0]
SubscriptionDefaults ==
    [status |-> "active", completed_classes |-> 0, progress_percent |-> ZeroPercent]
\* completed_at is the time of the INSERT, later for every later INSERT
ProgressDefaults == [completed_at |-> nextProgId]

NoReq ==
    [op |-> "none", id |-> 0, subject |-> "", teacher_id |-> "", notes |-> "",
     class |-> 0, subjects |-> <<>>, totalClasses |-> 0, subId |-> 0, i |-> 0,
     schedId |-> 0, currentChapter |-> 0, currentPart |-> 0, totalPartsDone |-> 0,
     newChapter |-> 0, newPart |-> 0, totalCompleted |-> 0, totalNeeded |-> 0,
     code |-> 0, schedule_days |-> <<>>, time |-> 0, status |-> "",
     now |-> <<>>, todayName |-> <<>>, todayCode |-> <<>>, rows |-> <<>>,
     sessions |-> <<>>, body |-> <<>>, deleted |-> 0, dropped |-> 0]

Extend(f, k, v) == [x \in DOMAIN f \cup {k} |-> IF x = k THEN v ELSE f[x]]
Restrict(f, S) == [x \in S |-> f[x]]

RECURSIVE SumDone(_, _)
SumDone(rows, ids) ==
    IF ids = {} THEN 0
    ELSE LET x == CHOOSE y \in ids : TRUE
         IN rows[x].total_parts_done + SumDone(rows, ids \ {x})

PlansOf(rows, id) == { s \in DOMAIN rows : rows[s].subscription_id = id }

AllIdle == \A p \in Procs : pc[p] = "idle"

Init ==
    /\ subscriptions = << >>
    /\ schedule = << >>
    /\ progress = << >>
    /\ nextSubId = 1
    /\ nextSchedId = 1
    /\ nextProgId = 1
    /\ pc = [p \in Procs |-> "idle"]
    /\ req = [p \in Procs |-> NoReq]
    /\ completions = << >>

(***************************************************************************)
(* markClassComplete                                                       *)
(***************************************************************************)
\* progress rows still to be inserted by calls that are under way
PendingInserts ==
    Cardinality({ q \in Procs : pc[q] \in {"mc_select", "mc_insert"} })

\* c.Param("id") and ShouldBindJSON(&input)
markClassComplete_Bind(p, id, subject, teacher, notes, maxEvents) ==
    /\ pc[p] = "idle"
    /\ nextProgId + PendingInserts <= maxEvents
    /\ req' = [req EXCEPT ![p] = [NoReq EXCEPT !.op = "complete", !.id = id,
                    !.subject = subject, !.teacher_id = teacher, !.notes = notes]]
    /\ pc' = [pc EXCEPT ![p] = "mc_select"]
    /\ UNCHANGED <<store, completions>>

\* ScheduleRowsFor without the subject condition
ScheduleRowsFor_AnySubject(id, subject) ==
    { s \in DOMAIN schedule : schedule[s].subscription_id = id }

\* SELECT ... FROM mentor.schedule WHERE subscription_id = $1 AND subject = $2
ScheduleRowsFor(id, subject) ==
    { s \in DOMAIN schedule : /\ schedule[s].subscription_id = id
                              /\ schedule[s].subject = subject }

\* markClassComplete_Select refusing a plan whose total_parts_needed is reached
markClassComplete_Select_Capped(p) ==
    /\ pc[p] = "mc_select"
    /\ IF ScheduleRowsFor(req[p].id, req[p].subject) = {}
       THEN /\ pc' = [pc EXCEPT ![p] = "respond"]
            /\ req' = [req EXCEPT ![p].code = 404]
       ELSE \E s \in ScheduleRowsFor(req[p].id, req[p].subject) :
              IF schedule[s].total_parts_done >= schedule[s].total_parts_needed
              THEN /\ pc' = [pc EXCEPT ![p] = "respond"]
                   /\ req' = [req EXCEPT ![p].code = 400]
              ELSE /\ req' = [req EXCEPT ![p].schedId = s,
                            ![p].currentChapter = schedule[s].current_chapter,
                            ![p].currentPart = schedule[s].current_part,
                            ![p].totalPartsDone = schedule[s].total_parts_done]
                   /\ pc' = [pc EXCEPT ![p] = "mc_insert"]
    /\ UNCHANGED <<store, completions>>

markClassComplete_Select(p) ==
    /\ pc[p] = "mc_select"
    /\ IF ScheduleRowsFor(req[p].id, req[p].subject) = {}
       THEN /\ pc' = [pc EXCEPT ![p] = "respond"]
            /\ req' = [req EXCEPT ![p].code = 404]
       ELSE /\ \E s \in ScheduleRowsFor(req[p].id, req[p].subject) :
                 req' = [req EXCEPT ![p].schedId = s,
                            ![p].currentChapter = schedule[s].current_chapter,
                            ![p].currentPart = schedule[s].current_part,
                            ![p].totalPartsDone = schedule[s].total_parts_done]
            /\ pc' = [pc EXCEPT ![p] = "mc_insert"]
    /\ UNCHANGED <<store, completions>>

\* ProgressRow with the chapter and part the call advances to
ProgressRow_Advanced(l) ==
    [subscription_id |-> l.id, schedule_id |-> l.schedId, subject |-> l.subject,
     chapter |-> IF l.currentPart + 1 > PartsPerChapter
                 THEN l.currentChapter + 1 ELSE l.currentChapter,
     part |-> IF l.currentPart + 1 > PartsPerChapter THEN 1 ELSE l.currentPart + 1,
     teacher_id |-> l.teacher_id, notes |-> l.notes,
     completed_at |-> ProgressDefaults.completed_at]

\* the row of INSERT INTO mentor.progress
ProgressRow(l) ==
    [subscription_id |-> l.id, schedule_id |-> l.schedId, subject |-> l.subject,
     chapter |-> l.currentChapter, part |-> l.currentPart,
     teacher_id |-> l.teacher_id, notes |-> l.notes,
     completed_at |-> ProgressDefaults.completed_at]

markClassComplete_InsertProgress(p) ==
    /\ pc[p] = "mc_insert"
    /\ progress' = Extend(progress, nextProgId, ProgressRow(req[p]))
    /\ nextProgId' = nextProgId + 1
    /\ pc' = [pc EXCEPT ![p] = "mc_update"]
    /\ UNCHANGED <<subscriptions, schedule, nextSubId, nextSchedId, req,
                   completions>>

\* the INSERT fails: db.Exec returns an error, which the handler drops (the
\* value drawn from the SERIAL sequence is not given back)
markClassComplete_InsertProgress_Err(p) ==
    /\ pc[p] = "mc_insert"
    /\ nextProgId' = nextProgId + 1
    /\ req' = [req EXCEPT ![p].dropped = @ + 1]
    /\ pc' = [pc EXCEPT ![p] = "mc_update"]
    /\ UNCHANGED <<subscriptions, schedule, progress, nextSubId, nextSchedId,
                   completions>>

\* Advance wrapping one part early (>= for >)
Advance_WrapEarly(currentChapter, currentPart) ==
    IF currentPart + 1 >= PartsPerChapter
    THEN [chapter |-> currentChapter + 1, part |-> 1]
    ELSE [chapter |-> currentChapter, part |-> currentPart + 1]

\* Advance without the wrap into the next chapter
Advance_NoWrap(currentChapter, currentPart) ==
    [chapter |-> currentChapter, part |-> currentPart + 1]

\* newPart := currentPart + 1; if newPart > 3 { newPart = 1; newChapter++ }
Advance(currentChapter, currentPart) ==
    IF currentPart + 1 > PartsPerChapter
    THEN [chapter |-> currentChapter + 1, part |-> 1]
    ELSE [chapter |-> currentChapter, part |-> currentPart + 1]

\* totalPartsDone++
NextPartsDone(totalPartsDone) == totalPartsDone + 1

\* UPDATE mentor.schedule SET ... WHERE id = $4
markClassComplete_UpdateSchedule(p) ==
    /\ pc[p] = "mc_update"
    /\ LET l == req[p]
           adv == Advance(l.currentChapter, l.currentPart)
           done == NextPartsDone(l.totalPartsDone)
       IN /\ req' = [req EXCEPT ![p].newChapter = adv.chapter,
                                ![p].newPart = adv.part,
                                ![p].totalPartsDone = done]
          /\ schedule' =
               IF l.schedId \in DOMAIN schedule
               THEN [schedule EXCEPT ![l.schedId].current_chapter = adv.chapter,
                                     ![l.schedId].current_part = adv.part,
                                     ![l.schedId].total_parts_done = done]
               ELSE schedule
    /\ pc' = [pc EXCEPT ![p] = "mc_sum"]
    /\ UNCHANGED <<subscriptions, progress, nextSubId, nextSchedId, nextProgId,
                   completions>>

\* the UPDATE fails: db.Exec returns an error, which the handler drops; the
\* locals were advanced before the statement
markClassComplete_UpdateSchedule_Err(p) ==
    /\ pc[p] = "mc_update"
    /\ LET l == req[p]
           adv == Advance(l.currentChapter, l.currentPart)
       IN req' = [req EXCEPT ![p].newChapter = adv.chapter,
                             ![p].newPart = adv.part,
                             ![p].totalPartsDone = NextPartsDone(l.totalPartsDone),
                             ![p].dropped = @ + 1]
    /\ pc' = [pc EXCEPT ![p] = "mc_sum"]
    /\ UNCHANGED <<store, completions>>

\* TotalCompleted with COUNT of the started plans for SUM
TotalCompleted_Count(rows, id) ==
    Cardinality({ s \in DOMAIN rows : /\ rows[s].subscription_id = id
                                       /\ rows[s].total_parts_done > 0 })

\* SELECT COALESCE(SUM(total_parts_done), 0) ... WHERE subscription_id = $1
TotalCompleted(rows, id) == SumDone(rows, PlansOf(rows, id))

markClassComplete_SumDone(p) ==
    /\ pc[p] = "mc_sum"
    /\ req' = [req EXCEPT ![p].totalCompleted = TotalCompleted(schedule, req[p].id)]
    /\ pc' = [pc EXCEPT ![p] = "mc_total"]
    /\ UNCHANGED <<store, completions>>

\* the SELECT fails: Scan returns an error, which the handler drops, and
\* totalCompleted keeps its zero value
markClassComplete_SumDone_Err(p) ==
    /\ pc[p] = "mc_sum"
    /\ req' = [req EXCEPT ![p].dropped = @ + 1]
    /\ pc' = [pc EXCEPT ![p] = "mc_total"]
    /\ UNCHANGED <<store, completions>>

\* SELECT total_classes FROM mentor.subscriptions WHERE id = $1 (a failed Scan
\* leaves totalNeeded at 0)
markClassComplete_ReadTotal(p) ==
    /\ pc[p] = "mc_total"
    /\ req' = [req EXCEPT ![p].totalNeeded =
                 IF req[p].id \in DOMAIN subscriptions
                 THEN subscriptions[req[p].id].total_classes ELSE 0]
    /\ pc' = [pc EXCEPT ![p] = "mc_write"]
    /\ UNCHANGED <<store, completions>>

\* the SELECT fails: Scan returns an error, which the handler drops, and
\* totalNeeded keeps its zero value
markClassComplete_ReadTotal_Err(p) ==
    /\ pc[p] = "mc_total"
    /\ req' = [req EXCEPT ![p].dropped = @ + 1]
    /\ pc' = [pc EXCEPT ![p] = "mc_write"]
    /\ UNCHANGED <<store, completions>>

\* progressPercent := float64(totalCompleted) / float64(totalNeeded) * 100
ProgressPercent(totalCompleted, totalNeeded) ==
    IF totalNeeded > 0 THEN Frac(100 * totalCompleted, totalNeeded)
    ELSE ZeroPercent

\* markClassComplete_Body with the chapter and part the call started from
markClassComplete_Body_Previous(l) ==
    [new_chapter |-> l.currentChapter, new_part |-> l.currentPart,
     completed_total |-> l.totalCompleted,
     progress_percent |-> ProgressPercent(l.totalCompleted, l.totalNeeded)]

\* gin.H{"success": true, "new_chapter": ..., "new_part": ...,
\*       "completed_total": ..., "progress_percent": ...}
markClassComplete_Body(l) ==
    [new_chapter |-> l.newChapter, new_part |-> l.newPart,
     completed_total |-> l.totalCompleted,
     progress_percent |-> ProgressPercent(l.totalCompleted, l.totalNeeded)]

\* UPDATE mentor.subscriptions SET completed_classes, progress_percent
markClassComplete_UpdateSubscription(p) ==
    /\ pc[p] = "mc_write"
    /\ LET l == req[p]
       IN /\ subscriptions' =
               IF l.id \in DOMAIN subscriptions
               THEN [subscriptions EXCEPT
                       ![l.id].completed_classes = l.totalCompleted,
                       ![l.id].progress_percent =
                           ProgressPercent(l.totalCompleted, l.totalNeeded)]
               ELSE subscriptions
    /\ pc' = [pc EXCEPT ![p] = "respond"]
    /\ req' = [req EXCEPT ![p].code = 200,
                          ![p].body = markClassComplete_Body(req[p])]
    /\ UNCHANGED <<schedule, progress, nextSubId, nextSchedId, nextProgId,
                   completions>>

\* the UPDATE fails: db.Exec returns an error, which the handler drops, and
\* the handler answers as if it had succeeded
markClassComplete_UpdateSubscription_Err(p) ==
    /\ pc[p] = "mc_write"
    /\ pc' = [pc EXCEPT ![p] = "respond"]
    /\ req' = [req EXCEPT ![p].code = 200, ![p].dropped = @ + 1,
                          ![p].body = markClassComplete_Body(req[p])]
    /\ UNCHANGED <<store, completions>>

(***************************************************************************)
(* createSubscription                                                      *)
(***************************************************************************)
PendingCreates == Cardinality({ q \in Procs : pc[q] = "cs_insert" })

\* ShouldBindJSON(&input) and the first loop over strings.Split(input.Subjects, ",")
createSubscription_Bind(p, input, maxSubs) ==
    /\ pc[p] = "idle"
    /\ nextSubId + PendingCreates <= maxSubs
    /\ \E total \in createTotalClasses(input.class, input.subjects) :
         req' = [req EXCEPT ![p] = [NoReq EXCEPT !.op = "create",
                     !.class = input.class, !.subjects = input.subjects,
                     !.teacher_id = input.teacher_id,
                     !.schedule_days = input.schedule_days,
                     !.time = input.time, !.totalClasses = total]]
    /\ pc' = [pc EXCEPT ![p] = "cs_insert"]
    /\ UNCHANGED <<store, completions>>

\* ShouldBindJSON(&input) returns an error (the body is not a JSON object of
\* the input's field types): StatusBadRequest
createSubscription_BindErr(p) ==
    /\ pc[p] = "idle"
    /\ req' = [req EXCEPT ![p] = [NoReq EXCEPT !.op = "create", !.code = 400]]
    /\ pc' = [pc EXCEPT ![p] = "respond"]
    /\ UNCHANGED <<store, completions>>

\* the row of INSERT INTO mentor.subscriptions (..., total_classes)
SubscriptionRow(l) ==
    [total_classes |-> l.totalClasses,
     teacher_id |-> l.teacher_id,
     schedule_days |-> l.schedule_days,
     time |-> l.time,
     status |-> SubscriptionDefaults.status,
     completed_classes |-> SubscriptionDefaults.completed_classes,
     progress_percent |-> SubscriptionDefaults.progress_percent]

createSubscription_Insert(p) ==
    /\ pc[p] = "cs_insert"
    /\ subscriptions' = Extend(subscriptions, nextSubId,
                               SubscriptionRow(req[p]))
    /\ nextSubId' = nextSubId + 1
    /\ req' = [req EXCEPT ![p].subId = nextSubId, ![p].i = 1]
    /\ pc' = [pc EXCEPT ![p] = "cs_schedule"]
    /\ UNCHANGED <<schedule, progress, nextSchedId, nextProgId, completions>>

\* ScheduleRow with the chapter count bound to total_parts_done as well
ScheduleRow_CountAsDone(subId, subj, chapterCount) ==
    [subscription_id |-> subId, subject |-> subj,
     total_parts_needed |-> chapterCount,
     current_chapter |-> ScheduleDefaults.current_chapter,
     current_part |-> ScheduleDefaults.current_part,
     total_parts_done |-> chapterCount]

\* the row of INSERT INTO mentor.schedule (subscription_id, subject,
\* total_parts_needed)
ScheduleRow(subId, subj, chapterCount) ==
    [subscription_id |-> subId, subject |-> subj,
     total_parts_needed |-> chapterCount,
     current_chapter |-> ScheduleDefaults.current_chapter,
     current_part |-> ScheduleDefaults.current_part,
     total_parts_done |-> ScheduleDefaults.total_parts_done]

\* one iteration of the second loop
createSubscription_InsertSchedule(p) ==
    /\ pc[p] = "cs_schedule"
    /\ LET l == req[p]
           subj == TrimSpace(l.subjects[l.i])
       IN /\ \E n \in scheduleChapters(l.class, subj) :
               schedule' = Extend(schedule, nextSchedId,
                                  ScheduleRow(l.subId, subj, n))
          /\ completions' = Extend(completions, nextSchedId, 0)
          /\ nextSchedId' = nextSchedId + 1
          /\ IF l.i < Len(l.subjects)
             THEN /\ req' = [req EXCEPT ![p].i = l.i + 1]
                  /\ pc' = pc
             ELSE /\ req' = [req EXCEPT ![p].code = 200]
                  /\ pc' = [pc EXCEPT ![p] = "respond"]
    /\ UNCHANGED <<subscriptions, progress, nextSubId, nextProgId>>

(***************************************************************************)
(* updateSubscription                                                      *)
(***************************************************************************)
\* ShouldBindJSON(&input) and the recalculation of total_classes
updateSubscription_Bind(p, id, input) ==
    /\ pc[p] = "idle"
    /\ \E total \in updateTotalClasses(input.class, input.subjects) :
         req' = [req EXCEPT ![p] = [NoReq EXCEPT !.op = "update", !.id = id,
                     !.class = input.class, !.subjects = input.subjects,
                     !.teacher_id = input.teacher_id,
                     !.schedule_days = input.schedule_days,
                     !.time = input.time, !.status = input.status,
                     !.totalClasses = total]]
    /\ pc' = [pc EXCEPT ![p] = "us_exec"]
    /\ UNCHANGED <<store, completions>>

\* status = COALESCE(NULLIF($11, ''), 'active')
StoredStatus(status) == IF status = "" THEN "active" ELSE status

\* updateSubscription_Exec that also starts the plans of the subscription again
updateSubscription_Exec_ResetPlans(p) ==
    /\ pc[p] = "us_exec"
    /\ subscriptions' =
         IF req[p].id \in DOMAIN subscriptions
         THEN [subscriptions EXCEPT
                 ![req[p].id].teacher_id = req[p].teacher_id,
                 ![req[p].id].schedule_days = req[p].schedule_days,
                 ![req[p].id].time = req[p].time,
                 ![req[p].id].total_classes = req[p].totalClasses,
                 ![req[p].id].status = StoredStatus(req[p].status)]
         ELSE subscriptions
    /\ schedule' =
         [s \in DOMAIN schedule |->
            IF schedule[s].subscription_id = req[p].id
            THEN [schedule[s] EXCEPT
                    !.current_chapter = ScheduleDefaults.current_chapter,
                    !.current_part = ScheduleDefaults.current_part,
                    !.total_parts_done = ScheduleDefaults.total_parts_done]
            ELSE schedule[s]]
    /\ req' = [req EXCEPT ![p].code = 200]
    /\ pc' = [pc EXCEPT ![p] = "respond"]
    /\ UNCHANGED <<progress, nextSubId, nextSchedId, nextProgId, completions>>

\* UPDATE mentor.subscriptions SET ..., status, total_classes WHERE id = $14
updateSubscription_Exec(p) ==
    /\ pc[p] = "us_exec"
    /\ subscriptions' =
         IF req[p].id \in DOMAIN subscriptions
         THEN [subscriptions EXCEPT
                 ![req[p].id].teacher_id = req[p].teacher_id,
                 ![req[p].id].schedule_days = req[p].schedule_days,
                 ![req[p].id].time = req[p].time,
                 ![req[p].id].total_classes = req[p].totalClasses,
                 ![req[p].id].status = StoredStatus(req[p].status)]
         ELSE subscriptions
    /\ req' = [req EXCEPT ![p].code = 200]
    /\ pc' = [pc EXCEPT ![p] = "respond"]
    /\ UNCHANGED <<schedule, progress, nextSubId, nextSchedId, nextProgId,
                   completions>>

(***************************************************************************)
(* deleteSubscription                                                      *)
(***************************************************************************)
deleteSubscription_Bind(p, id) ==
    /\ pc[p] = "idle"
    /\ req' = [req EXCEPT ![p] = [NoReq EXCEPT !.op = "delete", !.id = id]]
    /\ pc' = [pc EXCEPT ![p] = "ds_progress"]
    /\ UNCHANGED <<store, completions>>

\* the DELETE without its WHERE clause
deleteSubscription_DeleteProgress_All(p) ==
    /\ pc[p] = "ds_progress"
    /\ progress' = << >>
    /\ req' = [req EXCEPT ![p].deleted = @ + Cardinality(DOMAIN progress)]
    /\ pc' = [pc EXCEPT ![p] = "ds_schedule"]
    /\ UNCHANGED <<subscriptions, schedule, nextSubId, nextSchedId, nextProgId,
                   completions>>

\* DELETE FROM mentor.progress WHERE subscription_id = $1
deleteSubscription_DeleteProgress(p) ==
    /\ pc[p] = "ds_progress"
    /\ progress' = Restrict(progress,
          { e \in DOMAIN progress : progress[e].subscription_id # req[p].id })
    /\ req' = [req EXCEPT ![p].deleted =
                 @ + Cardinality(DOMAIN progress \ DOMAIN progress')]
    /\ pc' = [pc EXCEPT ![p] = "ds_schedule"]
    /\ UNCHANGED <<subscriptions, schedule, nextSubId, nextSchedId, nextProgId,
                   completions>>

\* the DELETE fails: db.Exec returns an error, which the handler drops
deleteSubscription_DeleteProgress_Err(p) ==
    /\ pc[p] = "ds_progress"
    /\ pc' = [pc EXCEPT ![p] = "ds_schedule"]
    /\ UNCHANGED <<store, req, completions>>

\* DELETE FROM mentor.schedule WHERE subscription_id = $1
deleteSubscription_DeleteSchedule(p) ==
    /\ pc[p] = "ds_schedule"
    /\ schedule' = Restrict(schedule,
          { s \in DOMAIN schedule : schedule[s].subscription_id # req[p].id })
    /\ req' = [req EXCEPT ![p].deleted =
                 @ + Cardinality(DOMAIN schedule \ DOMAIN schedule')]
    /\ pc' = [pc EXCEPT ![p] = "ds_subscription"]
    /\ UNCHANGED <<subscriptions, progress, nextSubId, nextSchedId, nextProgId,
                   completions>>

\* the DELETE fails: db.Exec returns an error, which the handler drops
deleteSubscription_DeleteSchedule_Err(p) ==
    /\ pc[p] = "ds_schedule"
    /\ pc' = [pc EXCEPT ![p] = "ds_subscription"]
    /\ UNCHANGED <<store, req, completions>>

\* DELETE FROM mentor.subscriptions WHERE id = $1
deleteSubscription_DeleteSubscription(p) ==
    /\ pc[p] = "ds_subscription"
    /\ subscriptions' = Restrict(subscriptions, DOMAIN subscriptions \ {req[p].id})
    /\ req' = [req EXCEPT ![p].code = 200]
    /\ pc' = [pc EXCEPT ![p] = "respond"]
    /\ UNCHANGED <<schedule, progress, nextSubId, nextSchedId, nextProgId,
                   completions>>

\* the DELETE fails: err != nil, StatusInternalServerError
deleteSubscription_DeleteSubscription_Err(p) ==
    /\ pc[p] = "ds_subscription"
    /\ req' = [req EXCEPT ![p].code = 500]
    /\ pc' = [pc EXCEPT ![p] = "respond"]
    /\ UNCHANGED <<store, completions>>

(***************************************************************************)
(* getProgress                                                             *)
(***************************************************************************)
getProgress_Bind(p, id) ==
    /\ pc[p] = "idle"
    /\ req' = [req EXCEPT ![p] = [NoReq EXCEPT !.op = "progress", !.id = id]]
    /\ pc' = [pc EXCEPT ![p] = "gp_query"]
    /\ UNCHANGED <<store, completions>>

\* getProgress_Rows without the WHERE clause
getProgress_Rows_AllSubscriptions(id) == DOMAIN progress

\* FROM mentor.progress WHERE subscription_id = $1
getProgress_Rows(id) ==
    { e \in DOMAIN progress : progress[e].subscription_id = id }

\* ORDER BY completed_at DESC: the orders of the rows S with the later
\* completed_at first (rows of equal completed_at in any order)
RECURSIVE OrderByCompletedAtDesc(_)
OrderByCompletedAtDesc(S) ==
    IF S = {} THEN { <<>> }
    ELSE LET latest == { e \in S : \A x \in S : progress[x].completed_at
                                                  <= progress[e].completed_at }
         IN UNION { { <<e>> \o rest : rest \in OrderByCompletedAtDesc(S \ {e}) } :
                    e \in latest }

\* LIMIT n
Limit(f, n) == SubSeq(f, 1, IF Len(f) < n THEN Len(f) ELSE n)

\* completedAt.Format("2006-01-02 15:04"): the minute of the time, two INSERT
\* times to the minute
TicksPerMinute == 2
FormatMinute(t) == t \div TicksPerMinute

\* the gin.H of one scanned row
ProgressItem(e) ==
    [id |-> e, subject |-> progress[e].subject, chapter |-> progress[e].chapter,
     part |-> progress[e].part, teacher_id |-> progress[e].teacher_id,
     notes |-> progress[e].notes,
     completed_at |-> FormatMinute(progress[e].completed_at)]

\* SELECT ... ORDER BY completed_at DESC LIMIT 50, the scan of the rows and the
\* response body
getProgress_Query(p) ==
    /\ pc[p] = "gp_query"
    /\ \E f \in OrderByCompletedAtDesc(getProgress_Rows(req[p].id)) :
         LET rows == Limit(f, ProgressLimit)
         IN req' = [req EXCEPT ![p].body =
                        [progress |-> [k \in DOMAIN rows |-> ProgressItem(rows[k])]],
                      ![p].code = 200]
    /\ pc' = [pc EXCEPT ![p] = "respond"]
    /\ UNCHANGED <<store, completions>>

(***************************************************************************)
(* Today's sessions of a teacher: getTeacherTodayV2 and getTodaySchedule   *)
(***************************************************************************)
\* mentor.holidays: externally managed, never written by the handlers
holidays == { [date |-> "2024-04-10", name |-> "Eid"] }

\* days[time.Now().Weekday()], Sunday being weekday 0
days == <<Sun, Mon, Tue, Wed, Thu, Fri, Sat>>
getDayName(now) == days[now.weekday + 1]

\* a Go map literal of (key, value) pairs as a function
MapOf(pairs) ==
    [k \in { e[1] : e \in pairs } |-> (CHOOSE e \in pairs : e[1] = k)[2]]

\* getTeacherTodayV2_dayNameToCode with the ISO numbering (Mon = 1 .. Sun = 7)
getTeacherTodayV2_dayNameToCode_Iso ==
    MapOf({ <<Mon, <<"1">>>>, <<Tue, <<"2">>>>, <<Wed, <<"3">>>>,
            <<Thu, <<"4">>>>, <<Fri, <<"5">>>>, <<Sat, <<"6">>>>,
            <<Sun, <<"7">>>> })

\* dayNameToCode of getTeacherTodayV2
getTeacherTodayV2_dayNameToCode ==
    MapOf({ <<Sat, <<"1">>>>, <<Sun, <<"2">>>>, <<Mon, <<"3">>>>, <<Tue, <<"4">>>>,
            <<Wed, <<"5">>>>, <<Thu, <<"6">>>>, <<Fri, <<"7">>>> })

\* dayNameToCode of getTodaySchedule
getTodaySchedule_dayNameToCode ==
    MapOf({ <<Sat, <<"1">>>>, <<Sun, <<"2">>>>, <<Mon, <<"3">>>>, <<Tue, <<"4">>>>,
            <<Wed, <<"5">>>>, <<Thu, <<"6">>>>, <<Fri, <<"7">>>> })

\* str LIKE '%' || pat || '%': pat occurs in str
Like(str, pat) ==
    \E k \in 0 .. Len(str) - Len(pat) : SubSeq(str, k + 1, k + Len(pat)) = pat

\* the orders a result set can be returned in
Orders(S) ==
    { f \in [1 .. Cardinality(S) -> S] :
        \A i, j \in 1 .. Cardinality(S) : i # j => f[i] # f[j] }

\* the (subject, chapter, part) snapshots of the plans of subscription id (the
\* order of the rows is not specified and is not kept)
SubjectProgress(id) ==
    { [subject |-> schedule[s].subject,
       current_chapter |-> schedule[s].current_chapter,
       current_part |-> schedule[s].current_part] : s \in PlansOf(schedule, id) }

\* the columns of a subscriptions row the loop scans
ScannedRow(id) ==
    [subscription_id |-> id, time |-> subscriptions[id].time]

\* c.Param("teacherId"), getDayName() and the code of today's name
getTeacherTodayV2_Bind(p, teacherId, now) ==
    /\ pc[p] = "idle"
    /\ req' = [req EXCEPT ![p] = [NoReq EXCEPT !.op = "todayV2",
                    !.teacher_id = teacherId, !.now = now,
                    !.todayName = getDayName(now),
                    !.todayCode = getTeacherTodayV2_dayNameToCode[getDayName(now)]]]
    /\ pc' = [pc EXCEPT ![p] = "tv_query"]
    /\ UNCHANGED <<store, completions>>

\* getTeacherTodayV2_Rows without the status condition
getTeacherTodayV2_Rows_AnyStatus(teacherId, todayName, todayCode) ==
    { id \in DOMAIN subscriptions :
        /\ subscriptions[id].teacher_id = teacherId
        /\ \/ Like(subscriptions[id].schedule_days, todayName)
           \/ Like(subscriptions[id].schedule_days, todayCode) }

\* WHERE s.teacher_id = $1 AND s.status = 'active'
\*   AND (s.schedule_days LIKE $2 OR s.schedule_days LIKE $3)
getTeacherTodayV2_Rows(teacherId, todayName, todayCode) ==
    { id \in DOMAIN subscriptions :
        /\ subscriptions[id].teacher_id = teacherId
        /\ subscriptions[id].status = "active"
        /\ \/ Like(subscriptions[id].schedule_days, todayName)
           \/ Like(subscriptions[id].schedule_days, todayCode) }

\* ORDER BY s.time: rows of equal time come in any order
OrderByTime(S) ==
    { f \in Orders(S) :
        \A i, j \in 1 .. Cardinality(S) :
          i < j => subscriptions[f[i]].time <= subscriptions[f[j]].time }

\* SELECT ... FROM mentor.subscriptions s WHERE ... ORDER BY s.time
getTeacherTodayV2_Query(p) ==
    /\ pc[p] = "tv_query"
    /\ \E f \in OrderByTime(getTeacherTodayV2_Rows(req[p].teacher_id,
                                  req[p].todayName, req[p].todayCode)) :
         /\ req' = [req EXCEPT ![p].rows = [k \in DOMAIN f |-> ScannedRow(f[k])],
                                ![p].i = 1]
         /\ pc' = [pc EXCEPT ![p] = IF Len(f) = 0 THEN "tv_body" ELSE "tv_sched"]
    /\ UNCHANGED <<store, completions>>

\* one iteration of rows.Next(): the plans of the row's subscription
getTeacherTodayV2_Schedule(p) ==
    /\ pc[p] = "tv_sched"
    /\ LET l == req[p]
           row == l.rows[l.i]
           session == [subscription_id |-> row.subscription_id, time |-> row.time,
                       subject_progress |-> SubjectProgress(row.subscription_id)]
       IN /\ req' = [req EXCEPT ![p].sessions = Append(l.sessions, session),
                                 ![p].i = l.i + 1]
          /\ pc' = [pc EXCEPT ![p] = IF l.i < Len(l.rows) THEN "tv_sched"
                                     ELSE "tv_body"]
    /\ UNCHANGED <<store, completions>>

\* gin.H{"success", "today", "today_code", "sessions"}
getTeacherTodayV2_Body(p) ==
    /\ pc[p] = "tv_body"
    /\ req' = [req EXCEPT ![p].body = [today |-> req[p].todayName,
                                       today_code |-> req[p].todayCode,
                                       sessions |-> req[p].sessions],
                           ![p].code = 200]
    /\ pc' = [pc EXCEPT ![p] = "respond"]
    /\ UNCHANGED <<store, completions>>

\* c.Param("teacherId"), getDayName() and the code of today's name
getTodaySchedule_Bind(p, teacherId, now) ==
    /\ pc[p] = "idle"
    /\ req' = [req EXCEPT ![p] = [NoReq EXCEPT !.op = "today",
                    !.teacher_id = teacherId, !.now = now,
                    !.todayName = getDayName(now),
                    !.todayCode = getTodaySchedule_dayNameToCode[getDayName(now)]]]
    /\ pc' = [pc EXCEPT ![p] = "ts_holiday"]
    /\ UNCHANGED <<store, completions>>

\* SELECT name FROM mentor.holidays WHERE date = $1, and the holiday response
getTodaySchedule_Holiday(p) ==
    /\ pc[p] = "ts_holiday"
    /\ LET found == { h \in holidays : h.date = req[p].now.date }
       IN IF found # {}
          THEN /\ \E h \in found :
                    req' = [req EXCEPT ![p].body = [schedules |-> <<>>,
                                                   isHoliday |-> TRUE,
                                                   holidayName |-> h.name],
                                       ![p].code = 200]
               /\ pc' = [pc EXCEPT ![p] = "respond"]
          ELSE /\ req' = req
               /\ pc' = [pc EXCEPT ![p] = "ts_query"]
    /\ UNCHANGED <<store, completions>>

\* WHERE s.teacher_id = $1 AND s.status = 'active'
\*   AND (s.schedule_days LIKE $2 OR s.schedule_days LIKE $3)
getTodaySchedule_Rows(teacherId, todayName, todayCode) ==
    { id \in DOMAIN subscriptions :
        /\ subscriptions[id].teacher_id = teacherId
        /\ subscriptions[id].status = "active"
        /\ \/ Like(subscriptions[id].schedule_days, todayName)
           \/ Like(subscriptions[id].schedule_days, todayCode) }

\* SELECT ... FROM mentor.subscriptions s WHERE ... (no ORDER BY)
getTodaySchedule_Query(p) ==
    /\ pc[p] = "ts_query"
    /\ \E f \in Orders(getTodaySchedule_Rows(req[p].teacher_id,
                             req[p].todayName, req[p].todayCode)) :
         /\ req' = [req EXCEPT ![p].rows = [k \in DOMAIN f |-> ScannedRow(f[k])],
                                ![p].i = 1]
         /\ pc' = [pc EXCEPT ![p] = IF Len(f) = 0 THEN "ts_body" ELSE "ts_sched"]
    /\ UNCHANGED <<store, completions>>

\* SELECT current_chapter, current_part FROM mentor.schedule
\* WHERE subscription_id = $1 LIMIT 1: any one plan; (1, 1) stays without a row
FirstPlan(id) ==
    IF PlansOf(schedule, id) = {}
    THEN { [current_chapter |-> 1, current_part |-> 1] }
    ELSE { [current_chapter |-> schedule[s].current_chapter,
            current_part |-> schedule[s].current_part] : s \in PlansOf(schedule, id) }

\* one iteration of rows.Next()
getTodaySchedule_Schedule(p) ==
    /\ pc[p] = "ts_sched"
    /\ LET l == req[p]
           row == l.rows[l.i]
       IN /\ \E plan \in FirstPlan(row.subscription_id) :
               req' = [req EXCEPT
                         ![p].sessions = Append(l.sessions,
                             [subscription_id |-> row.subscription_id,
                              time |-> row.time,
                              current_chapter |-> plan.current_chapter,
                              current_part |-> plan.current_part]),
                         ![p].i = l.i + 1]
          /\ pc' = [pc EXCEPT ![p] = IF l.i < Len(l.rows) THEN "ts_sched"
                                     ELSE "ts_body"]
    /\ UNCHANGED <<store, completions>>

\* gin.H{"success", "schedules", "today"}
getTodaySchedule_Body(p) ==
    /\ pc[p] = "ts_body"
    /\ req' = [req EXCEPT ![p].body = [today |-> req[p].todayName,
                                       schedules |-> req[p].sessions],
                           ![p].code = 200]
    /\ pc' = [pc EXCEPT ![p] = "respond"]
    /\ UNCHANGED <<store, completions>>

(***************************************************************************)
(* The response: c.JSON(status, ...) ends every handler                    *)
(***************************************************************************)
Respond(p) ==
    /\ pc[p] = "respond"
    /\ completions' =
         IF req[p].op = "complete" /\ req[p].code = 200
         THEN [completions EXCEPT ![req[p].schedId] = @ + 1]
         ELSE completions
    /\ pc' = [pc EXCEPT ![p] = "idle"]
    /\ req' = [req EXCEPT ![p] = NoReq]
    /\ UNCHANGED store

(***************************************************************************)
(* Specifications                                                          *)
(***************************************************************************)

\* one statement of a handler that is under way
Step(p) ==
    \/ markClassComplete_Select(p)
    \/ markClassComplete_InsertProgress(p)
    \/ markClassComplete_UpdateSchedule(p)
    \/ markClassComplete_SumDone(p)
    \/ markClassComplete_ReadTotal(p)
    \/ markClassComplete_UpdateSubscription(p)
    \/ createSubscription_Insert(p)
    \/ createSubscription_InsertSchedule(p)
    \/ updateSubscription_Exec(p)
    \/ deleteSubscription_DeleteProgress(p)
    \/ deleteSubscription_DeleteSchedule(p)
    \/ deleteSubscription_DeleteSubscription(p)
    \/ Respond(p)

\* a request arrives, its input drawn from in
Arrive(p, in) ==
    \/ \E id \in in.ids, subject \in in.completeSubjects, teacher \in in.teachers,
          notes \in in.notes :
         markClassComplete_Bind(p, id, subject, teacher, notes, in.maxEvents)
    \/ \E c \in in.creates :
         createSubscription_Bind(p, c, in.maxSubs)
    \/ \E id \in in.ids, u \in in.updates :
         updateSubscription_Bind(p, id, u)
    \/ \E id \in in.ids : deleteSubscription_Bind(p, id)

\* requests are served concurrently, their statements interleave
Next == \E p \in Procs : Arrive(p, ConcInputs) \/ Step(p)

Spec == Init /\ [][Next]_vars

\* requests are served one after the other (by process 1)
SeqNext == (AllIdle /\ Arrive(1, SeqInputs)) \/ Step(1)

SeqSpec == Init /\ [][SeqNext]_vars

\* the requests on one subscription are served one after the other (by
\* process 1)
LawNext == (AllIdle /\ Arrive(1, LawInputs)) \/ Step(1)

LawSpec == Init /\ [][LawNext]_vars

\* one subscription is created and markClassComplete calls on it are served
\* concurrently
RaceArrive(p, in) ==
    \/ \E id \in in.ids, subject \in in.completeSubjects, teacher \in in.teachers,
          notes \in in.notes :
         markClassComplete_Bind(p, id, subject, teacher, notes, in.maxEvents)
    \/ \E c \in in.creates :
         createSubscription_Bind(p, c, in.maxSubs)

RaceStep(p) ==
    \/ markClassComplete_Select(p)
    \/ markClassComplete_InsertProgress(p)
    \/ markClassComplete_UpdateSchedule(p)
    \/ markClassComplete_SumDone(p)
    \/ markClassComplete_ReadTotal(p)
    \/ markClassComplete_UpdateSubscription(p)
    \/ createSubscription_Insert(p)
    \/ createSubscription_InsertSchedule(p)
    \/ Respond(p)

RaceNext == \E p \in Procs : RaceArrive(p, RaceInputs) \/ RaceStep(p)

RaceSpec == Init /\ [][RaceNext]_vars

\* subscriptions are created, updated and completed and a teacher's sessions
\* of today are queried, one request after the other (by process 1)
QueryArrive(p, in) ==
    \/ \E id \in in.ids, subject \in in.completeSubjects, teacher \in in.teachers,
          notes \in in.notes :
         markClassComplete_Bind(p, id, subject, teacher, notes, in.maxEvents)
    \/ \E c \in in.creates :
         createSubscription_Bind(p, c, in.maxSubs)
    \/ \E id \in in.ids, u \in in.updates :
         updateSubscription_Bind(p, id, u)
    \/ \E teacher \in in.teachers, now \in in.nows :
         getTeacherTodayV2_Bind(p, teacher, now)
    \/ \E teacher \in in.teachers, now \in in.nows :
         getTodaySchedule_Bind(p, teacher, now)

QueryStep(p) ==
    \/ markClassComplete_Select(p)
    \/ markClassComplete_InsertProgress(p)
    \/ markClassComplete_UpdateSchedule(p)
    \/ markClassComplete_SumDone(p)
    \/ markClassComplete_ReadTotal(p)
    \/ markClassComplete_UpdateSubscription(p)
    \/ createSubscription_Insert(p)
    \/ createSubscription_InsertSchedule(p)
    \/ updateSubscription_Exec(p)
    \/ getTeacherTodayV2_Query(p)
    \/ getTeacherTodayV2_Schedule(p)
    \/ getTeacherTodayV2_Body(p)
    \/ getTodaySchedule_Holiday(p)
    \/ getTodaySchedule_Query(p)
    \/ getTodaySchedule_Schedule(p)
    \/ getTodaySchedule_Body(p)
    \/ Respond(p)

QueryNext == (AllIdle /\ QueryArrive(1, QueryInputs)) \/ QueryStep(1)

QuerySpec == Init /\ [][QueryNext]_vars

\* markClassComplete calls on one subscription, a few on a second one, and
\* history queries, one request after the other (by process 1)
LedgerArrive(p, in) ==
    \/ \E id \in in.ids, subject \in in.completeSubjects, teacher \in in.teachers,
          notes \in in.notes :
         markClassComplete_Bind(p, id, subject, teacher, notes, in.maxEvents)
    \/ \E id \in in.otherIds, subject \in in.completeSubjects,
          teacher \in in.teachers, notes \in in.notes :
         markClassComplete_Bind(p, id, subject, teacher, notes, in.otherMaxEvents)
    \/ \E c \in in.creates :
         createSubscription_Bind(p, c, in.maxSubs)
    \/ \E id \in in.ids \cup in.otherIds : getProgress_Bind(p, id)

LedgerStep(p) ==
    \/ markClassComplete_Select(p)
    \/ markClassComplete_InsertProgress(p)
    \/ markClassComplete_UpdateSchedule(p)
    \/ markClassComplete_SumDone(p)
    \/ markClassComplete_ReadTotal(p)
    \/ markClassComplete_UpdateSubscription(p)
    \/ createSubscription_Insert(p)
    \/ createSubscription_InsertSchedule(p)
    \/ getProgress_Query(p)
    \/ Respond(p)

LedgerNext == (AllIdle /\ LedgerArrive(1, LedgerInputs)) \/ LedgerStep(1)

LedgerSpec == Init /\ [][LedgerNext]_vars

\* a subscription is created, completed and deleted, one request after the
\* other (by process 1), and a statement of markClassComplete or of
\* deleteSubscription can fail
FailArrive(p, in) ==
    \/ \E id \in in.ids, subject \in in.completeSubjects, teacher \in in.teachers,
          notes \in in.notes :
         markClassComplete_Bind(p, id, subject, teacher, notes, in.maxEvents)
    \/ \E c \in in.creates :
         createSubscription_Bind(p, c, in.maxSubs)
    \/ createSubscription_BindErr(p)
    \/ \E id \in in.ids : deleteSubscription_Bind(p, id)

FailStep(p) ==
    \/ markClassComplete_Select(p)
    \/ markClassComplete_InsertProgress(p)
    \/ markClassComplete_InsertProgress_Err(p)
    \/ markClassComplete_UpdateSchedule(p)
    \/ markClassComplete_UpdateSchedule_Err(p)
    \/ markClassComplete_SumDone(p)
    \/ markClassComplete_SumDone_Err(p)
    \/ markClassComplete_ReadTotal(p)
    \/ markClassComplete_ReadTotal_Err(p)
    \/ markClassComplete_UpdateSubscription(p)
    \/ markClassComplete_UpdateSubscription_Err(p)
    \/ createSubscription_Insert(p)
    \/ createSubscription_InsertSchedule(p)
    \/ deleteSubscription_DeleteProgress(p)
    \/ deleteSubscription_DeleteProgress_Err(p)
    \/ deleteSubscription_DeleteSchedule(p)
    \/ deleteSubscription_DeleteSchedule_Err(p)
    \/ deleteSubscription_DeleteSubscription(p)
    \/ deleteSubscription_DeleteSubscription_Err(p)
    \/ Respond(p)

FailNext == (AllIdle /\ FailArrive(1, FailInputs)) \/ FailStep(1)

FailSpec == Init /\ [][FailNext]_vars

\* two subscriptions are created, updated, completed and queried, one request
\* after the other (by process 1)
EditArrive(p, in) ==
    \/ \E id \in in.ids, subject \in in.completeSubjects, teacher \in in.teachers,
          notes \in in.notes :
         markClassComplete_Bind(p, id, subject, teacher, notes, in.maxEvents)
    \/ \E c \in in.creates :
         createSubscription_Bind(p, c, in.maxSubs)
    \/ \E id \in in.ids, u \in in.updates :
         updateSubscription_Bind(p, id, u)
    \/ \E id \in in.ids : getProgress_Bind(p, id)
    \/ \E teacher \in in.teachers, now \in in.nows :
         getTeacherTodayV2_Bind(p, teacher, now)
    \/ \E teacher \in in.teachers, now \in in.nows :
         getTodaySchedule_Bind(p, teacher, now)

EditStep(p) ==
    \/ markClassComplete_Select(p)
    \/ markClassComplete_InsertProgress(p)
    \/ markClassComplete_UpdateSchedule(p)
    \/ markClassComplete_SumDone(p)
    \/ markClassComplete_ReadTotal(p)
    \/ markClassComplete_UpdateSubscription(p)
    \/ createSubscription_Insert(p)
    \/ createSubscription_InsertSchedule(p)
    \/ updateSubscription_Exec(p)
    \/ getProgress_Query(p)
    \/ getTeacherTodayV2_Query(p)
    \/ getTeacherTodayV2_Schedule(p)
    \/ getTeacherTodayV2_Body(p)
    \/ getTodaySchedule_Holiday(p)
    \/ getTodaySchedule_Query(p)
    \/ getTodaySchedule_Schedule(p)
    \/ getTodaySchedule_Body(p)
    \/ Respond(p)

EditNext == (AllIdle /\ EditArrive(1, EditInputs)) \/ EditStep(1)

EditSpec == Init /\ [][EditNext]_vars

\* a subscription is created while nothing else is served; afterwards
\* markClassComplete and deleteSubscription calls on it are served concurrently
OverlapArrive(p, in) ==
    \/ /\ AllIdle
       /\ \E c \in in.creates : createSubscription_Bind(p, c, in.maxSubs)
    \/ /\ \A q \in Procs : req[q].op # "create"
       /\ \E id \in in.ids, subject \in in.completeSubjects,
             teacher \in in.teachers, notes \in in.notes :
            markClassComplete_Bind(p, id, subject, teacher, notes, in.maxEvents)
    \/ /\ \A q \in Procs : req[q].op # "create"
       /\ \E id \in in.ids : deleteSubscription_Bind(p, id)

OverlapStep(p) ==
    \/ markClassComplete_Select(p)
    \/ markClassComplete_InsertProgress(p)
    \/ markClassComplete_UpdateSchedule(p)
    \/ markClassComplete_SumDone(p)
    \/ markClassComplete_ReadTotal(p)
    \/ markClassComplete_UpdateSubscription(p)
    \/ createSubscription_Insert(p)
    \/ createSubscription_InsertSchedule(p)
    \/ deleteSubscription_DeleteProgress(p)
    \/ deleteSubscription_DeleteSchedule(p)
    \/ deleteSubscription_DeleteSubscription(p)
    \/ Respond(p)

OverlapNext == \E p \in Procs : OverlapArrive(p, OverlapInputs) \/ OverlapStep(p)

OverlapSpec == Init /\ [][OverlapNext]_vars

(***************************************************************************)
(* Properties                                                              *)
(***************************************************************************)
Plans == DOMAIN schedule

\* C1: once every call has finished, the total_parts_done of every SubjectPlan
\* equals the number of markClassComplete calls on it that answered 200, also
\* when the calls overlapped (no lost update).
C1_NoLostUpdates ==
    AllIdle => \A s \in Plans : schedule[s].total_parts_done = completions[s]

\* C2: with calls served one after the other, a SubjectPlan on which k calls
\* succeeded is at chapter 1 + (k div 3) and part 1 + (k mod 3).
C2_TransitionLaw ==
    AllIdle =>
      \A s \in Plans :
        /\ schedule[s].current_chapter = 1 + (completions[s] \div 3)
        /\ schedule[s].current_part = 1 + (completions[s] % 3)

\* a plan that has been completed six times, at (3,1)
C2_Witness ==
    /\ AllIdle
    /\ \E s \in Plans : /\ completions[s] = 6
                        /\ schedule[s].current_chapter = 3
                        /\ schedule[s].current_part = 1

\* C3: with operations served one after the other, every Subscription's
\* completed_classes is the sum of total_parts_done over its SubjectPlans.
C3_CompletedIsSum ==
    AllIdle =>
      \A id \in DOMAIN subscriptions :
        subscriptions[id].completed_classes
          = SumDone(schedule, { s \in Plans : schedule[s].subscription_id = id })

\* a subscription with two plans that have both advanced
C3_Witness ==
    /\ AllIdle
    /\ \E id \in DOMAIN subscriptions :
         /\ subscriptions[id].completed_classes >= 2
         /\ \E s, t \in Plans :
              /\ s # t
              /\ schedule[s].subscription_id = id
              /\ schedule[t].subscription_id = id
              /\ schedule[s].total_parts_done >= 1
              /\ schedule[t].total_parts_done >= 1

\* C4: with operations served one after the other, every Subscription has
\* progress_percent = 100 * completed_classes / total_classes when
\* total_classes > 0, and progress_percent = 0 when total_classes = 0.
C4_PercentIsQuotient ==
    AllIdle =>
      \A id \in DOMAIN subscriptions :
        LET r == subscriptions[id]
        IN IF r.total_classes > 0
           THEN r.progress_percent.num * r.total_classes
                  = 100 * r.completed_classes * r.progress_percent.den
           ELSE r.progress_percent.num = 0

\* C5: every SubjectPlan has current_part in 1..3 and current_chapter >= 1,
\* whatever the interleaving of the calls.
C5_PartInRange ==
    \A s \in Plans : /\ schedule[s].current_part \in 1 .. 3
                     /\ schedule[s].current_chapter >= 1

\* a call has just wrapped a plan from part 3 into chapter 2 while another call
\* on the same plan is still under way
C5_Witness ==
    \E s \in Plans :
      /\ schedule[s].current_chapter = 2
      /\ schedule[s].current_part = 1
      /\ \E p, q \in Procs :
           /\ p # q
           /\ pc[p] = "mc_sum" /\ req[p].schedId = s
           /\ pc[q] \in {"mc_sum", "mc_total", "mc_write"} /\ req[q].schedId = s

\* C6: no step makes the stored total_parts_done of an existing SubjectPlan
\* smaller, also when calls on the plan overlap.
C6_PartsDoneMonotonic ==
    [][\A s \in Plans \cap DOMAIN schedule' :
         schedule'[s].total_parts_done >= schedule[s].total_parts_done]_vars

\* the progress rows recorded for SubjectPlan s
EventsOf(s) == { e \in DOMAIN progress : progress[e].schedule_id = s }

\* C7: with calls served one after the other, the INSERT of a markClassComplete
\* call appends exactly one ProgressEvent and changes no other; the event has
\* the chapter and part stored in the SubjectPlan before the transition and the
\* subscription id, plan id, subject, teacher id and notes of the call; no other
\* statement of the call touches the ledger, so that when the call answers 200
\* the plan has one event per successful call.
C7_EventIsPreTransition ==
    [][\A p \in Procs :
         /\ (pc[p] = "mc_insert" /\ pc'[p] # pc[p]) =>
              \E e \in DOMAIN progress' \ DOMAIN progress :
                /\ DOMAIN progress' = DOMAIN progress \cup {e}
                /\ \A x \in DOMAIN progress : progress'[x] = progress[x]
                /\ progress'[e].subscription_id = req[p].id
                /\ progress'[e].subject = req[p].subject
                /\ progress'[e].teacher_id = req[p].teacher_id
                /\ progress'[e].notes = req[p].notes
                /\ progress'[e].schedule_id \in Plans
                /\ LET plan == schedule[progress'[e].schedule_id]
                   IN /\ plan.subscription_id = req[p].id
                      /\ plan.subject = req[p].subject
                      /\ progress'[e].chapter = plan.current_chapter
                      /\ progress'[e].part = plan.current_part
         /\ (/\ pc[p] \in {"mc_select", "mc_update", "mc_sum", "mc_total", "mc_write"}
             /\ pc'[p] # pc[p]) => progress' = progress
         /\ (/\ pc[p] = "respond" /\ pc'[p] # pc[p]
             /\ req[p].op = "complete" /\ req[p].code = 200) =>
              /\ progress' = progress
              /\ Cardinality(EventsOf(req[p].schedId)) = completions'[req[p].schedId]
      ]_vars

\* the second completion of a plan has answered 200: its event holds part 2, the
\* plan is at part 3
C7_Witness ==
    \E p \in Procs, e \in DOMAIN progress :
      /\ pc[p] = "respond" /\ req[p].op = "complete" /\ req[p].code = 200
      /\ progress[e].schedule_id = req[p].schedId
      /\ progress[e].teacher_id = req[p].teacher_id
      /\ progress[e].chapter = 1 /\ progress[e].part = 2
      /\ req[p].schedId \in Plans
      /\ schedule[req[p].schedId].current_part = 3

\* the tables of the store
tables == <<subscriptions, schedule, progress>>

\* C8: a markClassComplete call for a (subscription id, subject) pair without a
\* SubjectPlan answers 404 and none of its steps changes the store; a call for
\* a pair that has a plan goes on to the INSERT.
C8_NotFoundLeavesStore ==
    [][\A p \in Procs :
         /\ (pc[p] = "mc_select" /\ pc'[p] # pc[p]) =>
              IF \E s \in Plans : /\ schedule[s].subscription_id = req[p].id
                                  /\ schedule[s].subject = req[p].subject
              THEN pc'[p] = "mc_insert"
              ELSE /\ pc'[p] = "respond"
                   /\ req'[p].code = 404
                   /\ UNCHANGED <<tables, completions>>
         /\ (/\ pc[p] = "respond" /\ pc'[p] # pc[p] /\ req[p].code = 404) =>
              /\ pc'[p] = "idle"
              /\ UNCHANGED <<tables, completions>>
      ]_vars

\* a call has answered 404 while the store holds plans and events
C8_Witness ==
    \E p \in Procs :
      /\ pc[p] = "respond" /\ req[p].op = "complete" /\ req[p].code = 404
      /\ Plans # {}
      /\ DOMAIN progress # {}
      /\ req[p].id \in DOMAIN subscriptions

\* C9: a ProgressEvent that exists is never changed; it is removed only by the
\* DELETE of a deleteSubscription call for its subscription id; and an event
\* comes into existence only by the INSERT of a markClassComplete call.
C9_LedgerAppendOnly ==
    [][/\ \A e \in DOMAIN progress \cap DOMAIN progress' :
            progress'[e] = progress[e]
       /\ \A e \in DOMAIN progress \ DOMAIN progress' :
            \E p \in Procs : /\ req[p].op = "delete"
                             /\ pc[p] = "ds_progress" /\ pc'[p] # pc[p]
                             /\ req[p].id = progress[e].subscription_id
       /\ \A e \in DOMAIN progress' \ DOMAIN progress :
            \E p \in Procs : /\ req[p].op = "complete"
                             /\ pc[p] = "mc_insert" /\ pc'[p] # pc[p]
      ]_vars

\* the first event of a plan is still in the ledger, as written, after two more
\* completions of the plan and an update of the subscription
C9_Witness ==
    \E e \in DOMAIN progress, p \in Procs :
      /\ progress[e].chapter = 1 /\ progress[e].part = 1
      /\ progress[e].schedule_id \in Plans
      /\ schedule[progress[e].schedule_id].current_part = 1
      /\ schedule[progress[e].schedule_id].current_chapter = 2
      /\ pc[p] = "respond" /\ req[p].op = "update"

\* the chapter counts the stated policy allows for one subject: the count of an
\* exact catalog row, else the count of a case-insensitive match, else 15
PolicyChapters(class, subj) ==
    LET exact == { r \in chapters : r.class = class /\ r.subject = subj }
        nocase == { r \in chapters : r.class = class
                                       /\ Lower(r.subject) = Lower(subj) }
    IN IF exact # {} THEN { r.total_chapters : r \in exact }
       ELSE IF nocase # {} THEN { r.total_chapters : r \in nocase }
       ELSE {15}

RECURSIVE PolicyTotals(_, _)
PolicyTotals(class, subjects) ==
    IF subjects = <<>> THEN {0}
    ELSE { n + m : n \in PolicyChapters(class, TrimSpace(Head(subjects))),
                   m \in PolicyTotals(class, Tail(subjects)) }

\* C10 as stated: the totalClasses createSubscription computes and inserts is
\* the sum over the listed subjects of: the chapter count of an exact catalog
\* match, else that of a case-insensitive match, else 15.
C10_ThreeStepPolicy ==
    \A p \in Procs :
      /\ pc[p] = "cs_insert" =>
           req[p].totalClasses \in PolicyTotals(req[p].class, req[p].subjects)
      /\ (pc[p] = "cs_schedule" /\ req[p].subId \in DOMAIN subscriptions) =>
           subscriptions[req[p].subId].total_classes
             \in PolicyTotals(req[p].class, req[p].subjects)

\* the policy with a chapter count of 0 standing for 15
AmendedChapters(class, subj) ==
    { IF n = 0 THEN 15 ELSE n : n \in PolicyChapters(class, subj) }

RECURSIVE AmendedTotals(_, _)
AmendedTotals(class, subjects) ==
    IF subjects = <<>> THEN {0}
    ELSE { n + m : n \in AmendedChapters(class, TrimSpace(Head(subjects))),
                   m \in AmendedTotals(class, Tail(subjects)) }

\* C10 as amended: as C10, except that a matched row whose chapter count is 0
\* gives 15 (and an exact row with count 0 is not followed by the
\* case-insensitive lookup).
C10_ThreeStepPolicyNonZero ==
    \A p \in Procs :
      /\ pc[p] = "cs_insert" =>
           req[p].totalClasses \in AmendedTotals(req[p].class, req[p].subjects)
      /\ (pc[p] = "cs_schedule" /\ req[p].subId \in DOMAIN subscriptions) =>
           subscriptions[req[p].subId].total_classes
             \in AmendedTotals(req[p].class, req[p].subjects)

\* class 5 with "Math, Science": 10 by the case-insensitive row "math" and the
\* default 15 for Science, inserted as total_classes 25
C10_Witness ==
    \E p \in Procs :
      /\ pc[p] = "cs_schedule"
      /\ req[p].class = 5
      /\ req[p].subjects = <<"Math", " Science">>
      /\ req[p].subId \in DOMAIN subscriptions
      /\ subscriptions[req[p].subId].total_classes = 25

\* the sum of total_parts_needed over the SubjectPlans ids
RECURSIVE SumNeeded(_)
SumNeeded(ids) ==
    IF ids = {} THEN 0
    ELSE LET x == CHOOSE y \in ids : TRUE
         IN schedule[x].total_parts_needed + SumNeeded(ids \ {x})

\* a createSubscription call that has made all its INSERTs
Created(p) == pc[p] = "respond" /\ req[p].op = "create" /\ req[p].code = 200

\* C11: when createSubscription has made its INSERTs, the total_classes of the
\* new Subscription equals the sum of total_parts_needed over its SubjectPlans,
\* also when a subject was matched only case-insensitively.
C11_TotalIsSumOfPartsNeeded ==
    \A p \in Procs :
      Created(p) =>
        subscriptions[req[p].subId].total_classes
          = SumNeeded(PlansOf(schedule, req[p].subId))

C13_OnePlanPerSubject ==
    /\ \A p \in Procs :
         Created(p) =>
           /\ Cardinality(PlansOf(schedule, req[p].subId)) = Len(req[p].subjects)
           /\ { schedule[s].subject : s \in PlansOf(schedule, req[p].subId) }
                = { TrimSpace(req[p].subjects[k]) : k \in 1 .. Len(req[p].subjects) }
    /\ \A s, t \in Plans :
         (/\ schedule[s].subscription_id = schedule[t].subscription_id
          /\ schedule[s].subject = schedule[t].subject) => s = t

\* the tokens of a comma-joined list, as strings.Split(str, ",") gives them
RECURSIVE SplitFrom(_, _)
SplitFrom(str, token) ==
    IF str = <<>> THEN {token}
    ELSE IF Head(str) = "," THEN {token} \cup SplitFrom(Tail(str), <<>>)
         ELSE SplitFrom(Tail(str), Append(token, Head(str)))

Tokens(str) == SplitFrom(str, <<>>)

\* a today query (either endpoint) that has built its response
Answered(p) == pc[p] = "respond" /\ req[p].op \in {"today", "todayV2"}

\* the session list of the response
Sessions(p) ==
    IF "sessions" \in DOMAIN req[p].body THEN req[p].body.sessions
    ELSE req[p].body.schedules

SessionIds(p) == { Sessions(p)[k].subscription_id : k \in DOMAIN Sessions(p) }

\* today's date of the query has a Holiday record
OnHoliday(p) == \E h \in holidays : h.date = req[p].now.date

\* C14: on a non-holiday, an active subscription of the queried teacher is in
\* the sessions of either today query if and only if its set of day tokens
\* contains today's three-letter name or today's numeric code.
C14_DayTokenMatch ==
    \A p \in Procs :
      (Answered(p) /\ ~OnHoliday(p)) =>
        \A id \in DOMAIN subscriptions :
          (/\ subscriptions[id].status = "active"
           /\ subscriptions[id].teacher_id = req[p].teacher_id) =>
            (id \in SessionIds(p)
               <=> \/ req[p].todayName \in Tokens(subscriptions[id].schedule_days)
                   \/ req[p].todayCode \in Tokens(subscriptions[id].schedule_days))

\* the mapping as stated: Sat=1, Sun=2, Mon=3, Tue=4, Wed=5, Thu=6, Fri=7
StatedCode(name) ==
    CASE name = Sat -> <<"1">> [] name = Sun -> <<"2">> [] name = Mon -> <<"3">>
      [] name = Tue -> <<"4">> [] name = Wed -> <<"5">> [] name = Thu -> <<"6">>
      [] name = Fri -> <<"7">>

\* C15: the code either endpoint derives from today's day name is the one of
\* the table Sat=1, Sun=2, Mon=3, Tue=4, Wed=5, Thu=6, Fri=7; the tables of the
\* two endpoints are the same and map the seven day names one-to-one onto the
\* codes 1..7.
C15_DayCodeTable ==
    /\ \A p \in Procs :
         pc[p] \in {"tv_query", "ts_holiday"} =>
           /\ req[p].todayName = days[req[p].now.weekday + 1]
           /\ req[p].todayCode = StatedCode(req[p].todayName)
    /\ getTeacherTodayV2_dayNameToCode = getTodaySchedule_dayNameToCode
    /\ DOMAIN getTeacherTodayV2_dayNameToCode = {Sun, Mon, Tue, Wed, Thu, Fri, Sat}
    /\ { getTeacherTodayV2_dayNameToCode[n] : n \in DOMAIN getTeacherTodayV2_dayNameToCode }
         = { <<"1">>, <<"2">>, <<"3">>, <<"4">>, <<"5">>, <<"6">>, <<"7">> }

\* getTeacherTodayV2 on a Friday holds code 7, and a Saturday subscription by
\* code is in the store
C15_Witness ==
    \E p \in Procs :
      /\ pc[p] = "tv_query"
      /\ req[p].now.weekday = 5
      /\ req[p].todayName = Fri
      /\ req[p].todayCode = <<"7">>
      /\ DOMAIN subscriptions # {}

\* C16: when a Holiday record exists for today's date, either today query
\* answers an empty session list with isHoliday = true and the stored name.
C16_HolidayShortCircuit ==
    \A p \in Procs :
      Answered(p) =>
        \A h \in holidays :
          h.date = req[p].now.date =>
            /\ Sessions(p) = <<>>
            /\ "isHoliday" \in DOMAIN req[p].body
            /\ req[p].body.isHoliday
            /\ req[p].body.holidayName = h.name

\* C17: a today query never returns a subscription that is not active or that
\* belongs to another teacher than the queried one.
C17_ActiveOfTeacherOnly ==
    \A p \in Procs :
      Answered(p) =>
        \A id \in SessionIds(p) :
          /\ id \in DOMAIN subscriptions
          /\ subscriptions[id].status = "active"
          /\ subscriptions[id].teacher_id = req[p].teacher_id

\* a Monday query returns one subscription while another Monday subscription,
\* paused or reassigned by updateSubscription, is left out
C17_Witness ==
    \E p \in Procs, id, other \in DOMAIN subscriptions :
      /\ Answered(p)
      /\ req[p].todayName = Mon
      /\ SessionIds(p) = {id}
      /\ other # id
      /\ Like(subscriptions[other].schedule_days, Mon)
      /\ \/ subscriptions[other].status = "paused"
         \/ subscriptions[other].teacher_id # req[p].teacher_id

\* session carries the current chapter and part of SubjectPlan s
Carries(session, s) ==
    IF "subject_progress" \in DOMAIN session
    THEN [subject |-> schedule[s].subject,
          current_chapter |-> schedule[s].current_chapter,
          current_part |-> schedule[s].current_part] \in session.subject_progress
    ELSE /\ session.current_chapter = schedule[s].current_chapter
         /\ session.current_part = schedule[s].current_part

\* C18: the sessions of a today query are in ascending order of time, and each
\* carries the stored current chapter and part of every SubjectPlan of its
\* subscription.
C18_OrderedWithSnapshots ==
    \A p \in Procs :
      (Answered(p) /\ ~OnHoliday(p)) =>
        /\ \A i, j \in DOMAIN Sessions(p) :
             i < j => Sessions(p)[i].time <= Sessions(p)[j].time
        /\ \A k \in DOMAIN Sessions(p) :
             \A s \in PlansOf(schedule, Sessions(p)[k].subscription_id) :
               Carries(Sessions(p)[k], s)

\* a getProgress call that has built its response
History(p) == req[p].body.progress

\* C19: getProgress(id) returns only ProgressEvents of subscription id, each
\* once, at most 50 and all of them when there are no more than 50, the later
\* completed_at first; no event of the subscription that it leaves out is
\* later than one it returns.
C19_RecentHistory ==
    \A p \in Procs :
      (pc[p] = "respond" /\ req[p].op = "progress") =>
        LET mine == { e \in DOMAIN progress : progress[e].subscription_id = req[p].id }
            got == { History(p)[k].id : k \in DOMAIN History(p) }
        IN /\ got \subseteq mine
           /\ Len(History(p)) <= 50
           /\ Cardinality(got) = Len(History(p))
           /\ Cardinality(mine) <= 50 => got = mine
           /\ Cardinality(mine) > 50 => Len(History(p)) = 50
           /\ \A i, j \in DOMAIN History(p) :
                i < j => /\ progress[History(p)[i].id].completed_at
                             >= progress[History(p)[j].id].completed_at
                         /\ History(p)[i].completed_at >= History(p)[j].completed_at
           /\ \A e \in mine \ got : \A x \in got :
                progress[e].completed_at <= progress[x].completed_at

\* the history of a subscription with more than 50 events, while the ledger
\* also holds an event of another subscription
C19_Witness ==
    \E p \in Procs :
      /\ pc[p] = "respond" /\ req[p].op = "progress"
      /\ Len(History(p)) = 50
      /\ \E e \in DOMAIN progress :
           /\ progress[e].subscription_id = req[p].id
           /\ \A k \in DOMAIN History(p) : History(p)[k].id # e
      /\ \E e \in DOMAIN progress : progress[e].subscription_id # req[p].id

\* C20: when deleteSubscription(id) answers success, no SubjectPlan and no
\* ProgressEvent of subscription id remains; when it answers the storage error
\* of the DELETE of the Subscription row, its DELETEs have removed no SubjectPlan
\* and no ProgressEvent.
C20_CascadeOwnership ==
    \A p \in Procs :
      (pc[p] = "respond" /\ req[p].op = "delete") =>
        /\ req[p].code = 200 =>
             /\ PlansOf(schedule, req[p].id) = {}
             /\ \A e \in DOMAIN progress : progress[e].subscription_id # req[p].id
        /\ req[p].code = 500 => req[p].deleted = 0

\* C21: markClassComplete answers success only if none of its statements after
\* the SELECT of the SubjectPlan returned an error: the ProgressEvent was
\* appended, the SubjectPlan holds the chapter, part and total_parts_done the
\* call advanced to, and the Subscription holds the aggregate the call computed.
C21_StorageErrorSurfaced ==
    \A p \in Procs :
      (pc[p] = "respond" /\ req[p].op = "complete" /\ req[p].code = 200) =>
        /\ req[p].dropped = 0
        /\ \E e \in DOMAIN progress :
             /\ progress[e].schedule_id = req[p].schedId
             /\ progress[e].chapter = req[p].currentChapter
             /\ progress[e].part = req[p].currentPart
        /\ req[p].schedId \in DOMAIN schedule
        /\ schedule[req[p].schedId].current_chapter = req[p].newChapter
        /\ schedule[req[p].schedId].current_part = req[p].newPart
        /\ schedule[req[p].schedId].total_parts_done = req[p].totalPartsDone
        /\ req[p].id \in DOMAIN subscriptions
        /\ subscriptions[req[p].id].completed_classes = req[p].totalCompleted

\* a creation request that lacks a required field
MissingField(l) == l.subjects = NoSubjects \/ l.class = 0 \/ l.teacher_id = ""

\* C22: a createSubscription whose input lacks a required field (the subject
\* list, the class level, the teacher id) inserts no Subscription, and with it
\* no SubjectPlan, and is answered with the validation error 400.
C22_MissingFieldRejected ==
    \A p \in Procs :
      (req[p].op = "create" /\ MissingField(req[p])) =>
        /\ req[p].subId = 0
        /\ pc[p] = "respond" => req[p].code = 400

\* an updateSubscription on a stored subscription that has executed its UPDATE
Updated(p) ==
    /\ pc[p] = "respond" /\ req[p].op = "update"
    /\ req[p].id \in DOMAIN subscriptions

\* C23 as stated: after updateSubscription the total_classes of the
\* Subscription is the sum over the subject list of the update of: the chapter
\* count of an exact catalog match, else that of a case-insensitive match, else
\* 15, whatever total_classes was before.
C23_RecomputedFromScratch ==
    \A p \in Procs :
      Updated(p) =>
        subscriptions[req[p].id].total_classes
          \in PolicyTotals(req[p].class, req[p].subjects)

\* C23 as amended: when the update carries a class above 0 and a non-empty
\* subject string, total_classes is that sum with a matched chapter count of 0
\* standing for 15; otherwise total_classes is 0; whatever it was before.
C23_RecomputedOrZero ==
    \A p \in Procs :
      Updated(p) =>
        subscriptions[req[p].id].total_classes
          \in IF req[p].class > 0 /\ req[p].subjects # NoSubjects
              THEN AmendedTotals(req[p].class, req[p].subjects)
              ELSE {0}

\* an update whose subject "Math" is found by the case-insensitive lookup only
\* has replaced the 27 of the creation by 10 + 15
C23_Witness ==
    \E p \in Procs :
      /\ Updated(p)
      /\ req[p].class = 5 /\ req[p].subjects = <<"Math", " Science">>
      /\ subscriptions[req[p].id].total_classes = 25

\* C24: the status of every stored Subscription is one of active, paused,
\* cancelled.
C24_StatusDomain ==
    \A id \in DOMAIN subscriptions :
      subscriptions[id].status \in {"active", "paused", "cancelled"}

\* the chapter, part and total_parts_done of SubjectPlan s
Position(rows, s) ==
    <<rows[s].current_chapter, rows[s].current_part, rows[s].total_parts_done>>

\* C25: a step changes the chapter, part or total_parts_done of a SubjectPlan
\* only if it is the UPDATE of a markClassComplete call on the subscription and
\* subject of that plan, and no step changes the total_parts_needed of a plan:
\* the statements of updateSubscription, getProgress, the today queries and
\* markClassComplete on another subject or subscription leave them as they are.
C25_PlanChangedByItsCompletion ==
    [][\A s \in DOMAIN schedule \cap DOMAIN schedule' :
         /\ schedule'[s].total_parts_needed = schedule[s].total_parts_needed
         /\ Position(schedule', s) # Position(schedule, s) =>
              \E p \in Procs :
                /\ req[p].op = "complete"
                /\ pc[p] = "mc_update" /\ pc'[p] = "mc_sum"
                /\ req[p].id = schedule[s].subscription_id
                /\ req[p].subject = schedule[s].subject]_vars

\* an updateSubscription that no longer lists "Science" has executed on a
\* subscription whose Science plan was advanced, while another subscription
\* is stored
C25_Witness ==
    \E p \in Procs :
      /\ Updated(p)
      /\ req[p].subjects = <<"Math">>
      /\ \E s \in PlansOf(schedule, req[p].id) :
           schedule[s].subject = "Science" /\ schedule[s].total_parts_done > 0
      /\ Cardinality(DOMAIN subscriptions) = 2

\* C26: markClassComplete on a stored SubjectPlan is never refused for the
\* progress the plan has made: the call goes on to its INSERT, its UPDATE adds
\* one to total_parts_done, and it answers 200, also when total_parts_done has
\* reached total_parts_needed.
C26_NoCap ==
    [][\A p \in Procs :
         /\ (/\ pc[p] = "mc_select" /\ pc'[p] # "mc_select"
             /\ ScheduleRowsFor(req[p].id, req[p].subject) # {}) =>
              pc'[p] = "mc_insert"
         /\ (/\ pc[p] = "mc_update" /\ pc'[p] = "mc_sum"
             /\ req[p].schedId \in DOMAIN schedule) =>
              schedule'[req[p].schedId].total_parts_done
                = schedule[req[p].schedId].total_parts_done + 1
         /\ (pc[p] = "mc_write" /\ pc'[p] = "respond") =>
              req'[p].code = 200]_vars

\* a call that found its plan with total_parts_done at or above
\* total_parts_needed has answered 200 and left total_parts_done above
\* total_parts_needed and the progress_percent of the Subscription above 100
C26_Witness ==
    \E p \in Procs :
      /\ pc[p] = "respond" /\ req[p].op = "complete" /\ req[p].code = 200
      /\ req[p].schedId \in DOMAIN schedule
      /\ req[p].totalPartsDone - 1 >= schedule[req[p].schedId].total_parts_needed
      /\ schedule[req[p].schedId].total_parts_done
           > schedule[req[p].schedId].total_parts_needed
      /\ req[p].id \in DOMAIN subscriptions
      /\ subscriptions[req[p].id].progress_percent.num
           > 100 * subscriptions[req[p].id].progress_percent.den

\* C27: when requests are served one after the other, the body of a successful
\* markClassComplete carries what the call stored: new_chapter and new_part are
\* the current_chapter and current_part of the SubjectPlan, completed_total and
\* progress_percent are the completed_classes and progress_percent of the
\* Subscription.
C27_ResponseIsPersisted ==
    \A p \in Procs :
      (pc[p] = "respond" /\ req[p].op = "complete" /\ req[p].code = 200) =>
        /\ req[p].schedId \in DOMAIN schedule
        /\ req[p].body.new_chapter = schedule[req[p].schedId].current_chapter
        /\ req[p].body.new_part = schedule[req[p].schedId].current_part
        /\ req[p].id \in DOMAIN subscriptions
        /\ req[p].body.completed_total
             = subscriptions[req[p].id].completed_classes
        /\ req[p].body.progress_percent
             = subscriptions[req[p].id].progress_percent

\* the third completion of a plan, the one that wraps into chapter 2, has
\* answered with a progress_percent above 0
C27_Witness ==
    \E p \in Procs :
      /\ pc[p] = "respond" /\ req[p].op = "complete" /\ req[p].code = 200
      /\ req[p].body.new_chapter = 2 /\ req[p].body.new_part = 1
      /\ req[p].body.completed_total = 3
      /\ req[p].body.progress_percent.num > 0

\* C28: once every call has finished, and no SubjectPlan has been completed by
\* more than one call (calls that overlapped were on different subjects), the
\* completed_classes of every Subscription is the sum of the total_parts_done
\* of its SubjectPlans.
C28_AggregateAfterOverlap ==
    (AllIdle /\ \A s \in DOMAIN completions : completions[s] <= 1) =>
      \A id \in DOMAIN subscriptions :
        subscriptions[id].completed_classes
          = SumDone(schedule, PlansOf(schedule, id))

\* C29: whenever no markClassComplete is under way, the number of
\* ProgressEvents of every SubjectPlan is its total_parts_done, and its
\* total_parts_done is 3 * (current_chapter - 1) + (current_part - 1); calls
\* that overlapped included.
C29_EventsCountPartsDone ==
    (\A p \in Procs : req[p].op # "complete") =>
      \A s \in DOMAIN schedule :
        /\ Cardinality(EventsOf(s)) = schedule[s].total_parts_done
        /\ schedule[s].total_parts_done
             = PartsPerChapter * (schedule[s].current_chapter - 1)
               + (schedule[s].current_part - 1)

\* C30: once every call has finished, every ProgressEvent and every SubjectPlan
\* refers to a stored Subscription: a deleteSubscription that overlapped a
\* markClassComplete on the same subscription has left no row of it behind.
C30_NoOrphanAfterOverlap ==
    AllIdle =>
      /\ \A e \in DOMAIN progress :
           progress[e].subscription_id \in DOMAIN subscriptions
      /\ \A s \in DOMAIN schedule :
           schedule[s].subscription_id \in DOMAIN subscriptions
=============================================================================
